---------------------------- MODULE Spec2Model ----------------------------
(***************************************************************************)
(* A model of package search of bleve: the MemTracker byte counter, the    *)
(* DocumentMatch result record with its Reset / AddFieldValue operations,  *)
(* the TermLocationMap, the DocumentMatchCollection sort interface and the *)
(* SizeInBytes estimators with the HeapOverhead table they read.           *)
(*                                                                         *)
(* Go values are represented as follows.                                   *)
(*   string          a TLA+ string; len(s) is Len(s)                       *)
(*   []T             a record [elems |-> sequence, cap |-> capacity]       *)
(*   map[string]T    a record [isNil |-> BOOLEAN, kv |-> function]         *)
(*   *T              a record with an isNil field, or (for *DocumentMatch) *)
(*                   an instance number, NilPtr standing for nil           *)
(*   float64         a record [nan |-> BOOLEAN, v |-> Int]                 *)
(*   interface{}     a record [kind, v, elems]: a scalar or a []interface{}*)
(***************************************************************************)
EXTENDS Integers, Sequences, FiniteSets, TLC

VARIABLES
    bytes,      \* MemTracker.bytes of every tracker
    added,      \* history: the arguments of the Add calls made on every tracker
    dms,        \* the DocumentMatch instances, by instance number
    tlms,       \* the TermLocationMap instances, by instance number
    locLog,     \* history: the locations added per TermLocationMap and term
    fieldLog,   \* history: the values added per DocumentMatch and field name
    coll,       \* a DocumentMatchCollection (a sequence of instance numbers)
    ret,        \* the pointer the last operation returned, NilPtr when it returns none
    lastOp      \* the name of the last operation

vars == <<bytes, added, dms, tlms, locLog, fieldLog, coll, ret, lastOp>>

---------------------------------------------------------------------------
(* Bounds of the model *)

\* the width of the MemTracker accumulator (uint64 in the code, scaled down)
WordBits == 3
\* the number of Add calls followed per tracker
MaxAdds == 3

RECURSIVE Pow2(_)
Pow2(n) == IF n = 0 THEN 1 ELSE 2 * Pow2(n - 1)

\* 2^w, the modulus of the accumulator's type
Modulus == Pow2(WordBits)

Trackers == {"query1", "query2"}

\* arguments of Add: zero, one, half the range and the largest value
AddInputs == {0, 1, Modulus \div 2, Modulus - 1}

RECURSIVE SumSeq(_)
SumSeq(s) == IF s = <<>> THEN 0 ELSE s[1] + SumSeq(Tail(s))

---------------------------------------------------------------------------
(* MemTracker *)

\* a nil pointer
NilPtr == 0

\* NewMemTracker: &MemTracker{}, bytes is zero
NewMemTracker == 0

\* m.bytes += add, in the accumulator's unsigned type
AddOverwrites(b, add) == add % Modulus
AddSaturates(b, add) == IF b + add >= Modulus THEN Modulus - 1 ELSE b + add
PlusEq(b, add) == (b + add) % Modulus

\* func (m *MemTracker) Usage() uint64
Usage(m) == bytes[m]

\* func (m *MemTracker) Add(add uint64)
Add(m, add) ==
    /\ bytes' = [bytes EXCEPT ![m] = PlusEq(bytes[m], add)]
    /\ added' = [added EXCEPT ![m] = Append(added[m], add)]
    /\ ret' = NilPtr
    /\ lastOp' = "Add"
    /\ UNCHANGED <<dms, tlms, locLog, fieldLog, coll>>

---------------------------------------------------------------------------
(* Sizes of the index package and the HeapOverhead table (64-bit build) *)

SizeOfPointer == 8
SizeOfString == 16
SizeOfSlice == 24
SizeOfInterface == 16
SizeOfUint64 == 8

\* reflect.TypeOf(x).Size() of the structures init measures
SizeofSearchContext == 8
SizeofDocumentMatchPool == 32
SizeofDocumentMatchCollection == 24
SizeofDocumentMatch == 136
SizeofTermLocationMap == 8
SizeofLocation == 48
SizeofDocument == 64
SizeofCompositeField == 64
SizeofSearcherOptions == 2

\* var HeapOverhead = map[string]int{} as init leaves it
HeapOverhead ==
    ("SearchContext" :> SizeofSearchContext + SizeOfPointer) @@
    ("DocumentMatchPool" :> SizeofDocumentMatchPool + SizeOfPointer) @@
    ("DocumentMatchCollection" :> SizeofDocumentMatchCollection) @@
    ("DocumentMatch" :> SizeofDocumentMatch + SizeOfPointer) @@
    ("TermLocationMap" :> SizeofTermLocationMap) @@
    ("Location" :> SizeofLocation + SizeOfPointer) @@
    ("Document" :> SizeofDocument + SizeOfPointer) @@
    ("CompositeField" :> SizeofCompositeField + SizeOfPointer) @@
    ("SearcherOptions" :> SizeofSearcherOptions + SizeOfPointer)

\* HeapOverhead[key]: a Go map read, the zero value for a key that is absent
Lookup(key) == IF key \in DOMAIN HeapOverhead THEN HeapOverhead[key] ELSE 0

---------------------------------------------------------------------------
(* Go values *)

\* a nil slice, and a slice of given contents and capacity
NilSlice == [elems |-> <<>>, cap |-> 0]
len(s) == Len(s.elems)
cap(s) == s.cap

\* s[:0]
ResliceDropsBuffer(s) == NilSlice
Reslice0(s) == [elems |-> <<>>, cap |-> s.cap]

\* append(s, x): in place while the capacity lasts, else into a new backing
\* array of capacity newcap, which the runtime chooses
GoAppend(s, x, newcap) ==
    IF Len(s.elems) < s.cap
    THEN [elems |-> Append(s.elems, x), cap |-> s.cap]
    ELSE [elems |-> Append(s.elems, x), cap |-> newcap]

\* a nil map, and the map make returns
NilMap == [isNil |-> TRUE, kv |-> <<>>]
MakeMap == [isNil |-> FALSE, kv |-> <<>>]

\* m[k] = v
MapPut(m, k, v) ==
    [isNil |-> FALSE,
     kv |-> [x \in (DOMAIN m.kv) \cup {k} |-> IF x = k THEN v ELSE m.kv[x]]]

\* float64: the numbers and NaN
F(n) == [nan |-> FALSE, v |-> n]
NaN == [nan |-> TRUE, v |-> 0]

\* a > b on float64: false whenever an operand is NaN
FloatGE(a, b) == ~a.nan /\ ~b.nan /\ a.v >= b.v
FloatGT(a, b) == ~a.nan /\ ~b.nan /\ a.v > b.v

\* interface{} values of DocumentMatch.Fields: a scalar, or a []interface{}
Scalar(x) == [kind |-> "scalar", v |-> x, elems |-> <<>>]
SliceOf(s) == [kind |-> "slice", v |-> 0, elems |-> s]

\* *Explanation: nil, or an explanation tree of a given SizeInBytes
NilExpl == [isNil |-> TRUE, size |-> 0]
SomeExpl == [isNil |-> FALSE, size |-> 40]

\* *document.Document: nil, or a document
NilDoc == [isNil |-> TRUE, ID |-> "", NumFields |-> 0, NumComposite |-> 0,
           PlainTextBytes |-> 0]
PlainDoc == [isNil |-> FALSE, ID |-> "doc1", NumFields |-> 2, NumComposite |-> 0,
             PlainTextBytes |-> 5]
CompositeDoc == [isNil |-> FALSE, ID |-> "doc1", NumFields |-> 1, NumComposite |-> 2,
                 PlainTextBytes |-> 5]

\* type Location struct
LocA == [Pos |-> 1, Start |-> 0, End |-> 3, ArrayPositions |-> <<>>]
LocB == [Pos |-> 2, Start |-> 4, End |-> 7, ArrayPositions |-> <<0, 1>>]

\* type DocumentMatch struct: the zero value DocumentMatch{}
ZeroDocumentMatch ==
    [Index |-> "", ID |-> "", IndexInternalID |-> NilSlice, Score |-> F(0),
     Expl |-> NilExpl, Locations |-> NilMap, Fragments |-> NilMap,
     Sort |-> NilSlice, Fields |-> NilMap, Document |-> NilDoc,
     HitNumber |-> 0]

---------------------------------------------------------------------------
(* The instances and the inputs the operations are given *)

DMIds == {1, 2, 3}
TLMIds == {1, 2}
FieldNames == {"t", "body"}
Terms == {"a", "bb"}
LocationInputs == {LocA, LocB}
ScoreInputs == {F(1), F(2), NaN}
FieldValueInputs == {Scalar(1), Scalar(2), SliceOf(<<Scalar(1)>>)}
DocumentInputs == {PlainDoc, CompositeDoc}

\* the capacity a slice may grow to
MaxCap == 2
\* the number of values added to one field
MaxVals == 3
\* the number of AddLocation calls followed
MaxLocs == 3
\* the longest collection built
MaxColl == 3

EmptyLog == [n \in FieldNames |-> <<>>]

---------------------------------------------------------------------------
(* DocumentMatch: the callers' assignments to its exported fields *)

Assign(p, field, value) ==
    /\ dms' = [dms EXCEPT ![p][field] = value]
    /\ ret' = NilPtr
    /\ lastOp' = "assign"
    /\ UNCHANGED <<bytes, added, tlms, locLog, fieldLog, coll>>

\* dm.Index = s
SetIndex(p, s) == Assign(p, "Index", s)

\* dm.ID = s
SetID(p, s) == Assign(p, "ID", s)

\* dm.IndexInternalID = append(dm.IndexInternalID, b)
AppendInternalID(p, b, newcap) ==
    Assign(p, "IndexInternalID", GoAppend(dms[p].IndexInternalID, b, newcap))

\* dm.Score = s
SetScore(p, s) == Assign(p, "Score", s)

\* dm.Expl = e
SetExpl(p, e) == Assign(p, "Expl", e)

\* dm.Locations[field] = t, in a map made when there is none
SetLocations(p, field, t) ==
    Assign(p, "Locations", MapPut(dms[p].Locations, field, t))

\* dm.Fragments[field] = fragments, in a map made when there is none
SetFragments(p, field, fragments) ==
    Assign(p, "Fragments", MapPut(dms[p].Fragments, field, fragments))

\* dm.Sort = append(dm.Sort, key)
AppendSort(p, key, newcap) ==
    Assign(p, "Sort", GoAppend(dms[p].Sort, key, newcap))

\* dm.Document = d
SetDocument(p, d) == Assign(p, "Document", d)

\* dm.HitNumber = n
SetHitNumber(p, n) == Assign(p, "HitNumber", n)

---------------------------------------------------------------------------
(* DocumentMatch.AddFieldValue *)

FieldsAfterAddAlwaysSlice(fields, name, value) ==
    LET m == IF fields.isNil THEN MakeMap ELSE fields
    IN  IF name \notin DOMAIN m.kv
        THEN MapPut(m, name, SliceOf(<<value>>))
        ELSE MapPut(m, name, SliceOf(Append(m.kv[name].elems, value)))

\* the Fields map AddFieldValue(name, value) leaves
FieldsAfterAdd(fields, name, value) ==
    LET m == IF fields.isNil THEN MakeMap ELSE fields
    IN  IF name \notin DOMAIN m.kv
        THEN MapPut(m, name, value)
        ELSE LET existingVal == m.kv[name]
                 valSlice == IF existingVal.kind = "slice"
                             THEN Append(existingVal.elems, value)
                             ELSE <<existingVal, value>>
             IN  MapPut(m, name, SliceOf(valSlice))

\* func (dm *DocumentMatch) AddFieldValue(name string, value interface{})
AddFieldValue(p, name, value) ==
    /\ dms' = [dms EXCEPT ![p].Fields = FieldsAfterAdd(dms[p].Fields, name, value)]
    /\ fieldLog' = [fieldLog EXCEPT ![p][name] = Append(fieldLog[p][name], value)]
    /\ ret' = NilPtr
    /\ lastOp' = "AddFieldValue"
    /\ UNCHANGED <<bytes, added, tlms, locLog, coll>>

---------------------------------------------------------------------------
(* DocumentMatch.Reset *)

ResetKeepsFields(dm) ==
    [ZeroDocumentMatch EXCEPT
        !.IndexInternalID = Reslice0(dm.IndexInternalID),
        !.Sort = Reslice0(dm.Sort),
        !.Fields = dm.Fields,
        !.Document = dm.Document]

\* the value Reset leaves in *dm
ResetValue(dm) ==
    LET indexInternalID == dm.IndexInternalID
        sort == dm.Sort
    IN  [ZeroDocumentMatch EXCEPT
            !.IndexInternalID = Reslice0(indexInternalID),
            !.Sort = Reslice0(sort)]

\* func (dm *DocumentMatch) Reset() *DocumentMatch
Reset(p) ==
    /\ dms' = [dms EXCEPT ![p] = ResetValue(dms[p])]
    /\ fieldLog' = [fieldLog EXCEPT ![p] = EmptyLog]
    /\ ret' = p
    /\ lastOp' = "Reset"
    /\ UNCHANGED <<bytes, added, tlms, locLog, coll>>

---------------------------------------------------------------------------
(* TermLocationMap *)

LocationsAfterAddPrepend(t, term, location) ==
    [k \in (DOMAIN t) \cup {term} |->
        IF k = term
        THEN <<location>> \o (IF term \in DOMAIN t THEN t[term] ELSE <<>>)
        ELSE t[k]]

LocationsAfterAddReplace(t, term, location) ==
    [k \in (DOMAIN t) \cup {term} |-> IF k = term THEN <<location>> ELSE t[k]]

\* t[term] = append(t[term], location): a missing term reads as nil Locations
LocationsAfterAdd(t, term, location) ==
    [k \in (DOMAIN t) \cup {term} |->
        IF k = term
        THEN Append(IF term \in DOMAIN t THEN t[term] ELSE <<>>, location)
        ELSE t[k]]

\* func (t TermLocationMap) AddLocation(term string, location *Location)
AddLocation(t, term, location) ==
    /\ tlms' = [tlms EXCEPT ![t] = LocationsAfterAdd(tlms[t], term, location)]
    /\ locLog' = [locLog EXCEPT ![t][term] = Append(locLog[t][term], location)]
    /\ ret' = NilPtr
    /\ lastOp' = "AddLocation"
    /\ UNCHANGED <<bytes, added, dms, fieldLog, coll>>

---------------------------------------------------------------------------
(* DocumentMatchCollection *)

\* c = append(c, entry): the collector adds a match, or leaves a slot nil
CollAppend(entry) ==
    /\ coll' = Append(coll, entry)
    /\ ret' = NilPtr
    /\ lastOp' = "append"
    /\ UNCHANGED <<bytes, added, dms, tlms, locLog, fieldLog>>

\* func (c DocumentMatchCollection) Len() int
CollLen(c) == Len(c)

\* c[i], c[j] = c[j], c[i]
Swapped(c, i, j) == [c EXCEPT ![i] = c[j], ![j] = c[i]]

\* func (c DocumentMatchCollection) Swap(i, j int): an index out of range panics
Swap(i, j) ==
    /\ i \in 1..Len(coll)
    /\ j \in 1..Len(coll)
    /\ coll' = Swapped(coll, i, j)
    /\ ret' = NilPtr
    /\ lastOp' = "Swap"
    /\ UNCHANGED <<bytes, added, dms, tlms, locLog, fieldLog>>

LessOrEqualScores(c, i, j) ==
    IF c[i] = NilPtr \/ c[j] = NilPtr
    THEN "panic"
    ELSE IF FloatGE(dms[c[i]].Score, dms[c[j]].Score) THEN "true" ELSE "false"

\* func (c DocumentMatchCollection) Less(i, j int) bool: c[i].Score > c[j].Score,
\* a nil pointer dereference when an entry is nil
Less(c, i, j) ==
    IF c[i] = NilPtr \/ c[j] = NilPtr
    THEN "panic"
    ELSE IF FloatGT(dms[c[i]].Score, dms[c[j]].Score) THEN "true" ELSE "false"

---------------------------------------------------------------------------
(* SizeInBytes *)

\* func (l *Location) SizeInBytes() int
LocationSizeInBytes(l) ==
    Lookup("Location") + Len(l.ArrayPositions) * SizeOfUint64

\* for _, entry := range v { sizeInBytes += entry.SizeInBytes() }
RECURSIVE LocationsSize(_)
LocationsSize(v) ==
    IF v = <<>> THEN 0
    ELSE LocationSizeInBytes(Head(v)) + LocationsSize(Tail(v))

\* for k, v := range t { ... } over the terms not yet visited
RECURSIVE TermsSize(_, _)
TermsSize(t, keys) ==
    IF keys = {} THEN 0
    ELSE LET k == CHOOSE x \in keys : TRUE
         IN  Len(k) + SizeOfString + SizeOfSlice + LocationsSize(t[k])
             + TermsSize(t, keys \ {k})

\* func (t TermLocationMap) SizeInBytes() int
TermLocationMapSizeInBytes(t) ==
    Lookup("TermLocationMap") + TermsSize(t, DOMAIN t)

\* for k, v := range dm.Locations { ... }
RECURSIVE FieldLocationsSize(_, _)
FieldLocationsSize(m, keys) ==
    IF keys = {} THEN 0
    ELSE LET k == CHOOSE x \in keys : TRUE
         IN  Len(k) + SizeOfString + TermLocationMapSizeInBytes(tlms[m[k]])
             + FieldLocationsSize(m, keys \ {k})

\* for _, entry := range v { sizeInBytes += len(entry) + index.SizeOfString }
RECURSIVE StringsSize(_)
StringsSize(v) ==
    IF v = <<>> THEN 0
    ELSE Len(Head(v)) + SizeOfString + StringsSize(Tail(v))

\* for k, v := range dm.Fragments { ... }
RECURSIVE FragmentsSize(_, _)
FragmentsSize(m, keys) ==
    IF keys = {} THEN 0
    ELSE LET k == CHOOSE x \in keys : TRUE
         IN  Len(k) + SizeOfString + SizeOfSlice + StringsSize(m[k])
             + FragmentsSize(m, keys \ {k})

\* for k, _ := range dm.Fields { ... }
RECURSIVE FieldsSize(_)
FieldsSize(keys) ==
    IF keys = {} THEN 0
    ELSE LET k == CHOOSE x \in keys : TRUE
         IN  Len(k) + SizeOfString + SizeOfInterface + FieldsSize(keys \ {k})

\* if dm.Document != nil { ... }
DocumentSize(d) ==
    IF d.isNil THEN 0
    ELSE Lookup("Document") + d.PlainTextBytes + Len(d.ID)
         + d.NumFields * SizeOfInterface
         + d.NumComposite * Lookup("CompositeFields")

\* func (dm *DocumentMatch) SizeInBytes() int
DocumentMatchSizeInBytes(dm) ==
    Lookup("DocumentMatch") + Len(dm.Index) + Len(dm.ID) + len(dm.IndexInternalID)
    + (IF dm.Expl.isNil THEN 0 ELSE dm.Expl.size)
    + FieldLocationsSize(dm.Locations.kv, DOMAIN dm.Locations.kv)
    + FragmentsSize(dm.Fragments.kv, DOMAIN dm.Fragments.kv)
    + StringsSize(dm.Sort.elems)
    + FieldsSize(DOMAIN dm.Fields.kv)
    + DocumentSize(dm.Document)

\* the keys of HeapOverhead that DocumentMatch.SizeInBytes reads for dm
OverheadKeysRead(dm) ==
    {"DocumentMatch"}
    \cup (IF DOMAIN dm.Locations.kv = {} THEN {} ELSE {"TermLocationMap"})
    \cup (IF \E f \in DOMAIN dm.Locations.kv :
                \E k \in DOMAIN tlms[dm.Locations.kv[f]] :
                    tlms[dm.Locations.kv[f]][k] # <<>>
          THEN {"Location"} ELSE {})
    \cup (IF dm.Document.isNil THEN {} ELSE {"Document", "CompositeFields"})

RECURSIVE EntriesSizeCountsNil(_)
EntriesSizeCountsNil(c) ==
    IF c = <<>> THEN 0
    ELSE (IF Head(c) # NilPtr THEN DocumentMatchSizeInBytes(dms[Head(c)])
          ELSE Lookup("DocumentMatch"))
         + EntriesSizeCountsNil(Tail(c))

\* for _, entry := range c { if entry != nil { ... } }
RECURSIVE EntriesSize(_)
EntriesSize(c) ==
    IF c = <<>> THEN 0
    ELSE (IF Head(c) # NilPtr THEN DocumentMatchSizeInBytes(dms[Head(c)]) ELSE 0)
         + EntriesSize(Tail(c))

\* func (c DocumentMatchCollection) SizeInBytes() int
CollectionSizeInBytes(c) == Lookup("DocumentMatchCollection") + EntriesSize(c)

---------------------------------------------------------------------------
(* The specifications *)

Init ==
    /\ bytes = [m \in Trackers |-> NewMemTracker]
    /\ added = [m \in Trackers |-> <<>>]
    /\ dms = [p \in DMIds |-> ZeroDocumentMatch]
    /\ tlms = [t \in TLMIds |-> <<>>]
    /\ locLog = [t \in TLMIds |-> [k \in Terms |-> <<>>]]
    /\ fieldLog = [p \in DMIds |-> EmptyLog]
    /\ coll = <<>>
    /\ ret = NilPtr
    /\ lastOp = "init"

\* the number of locations added so far
RECURSIVE CountLocs(_)
CountLocs(S) ==
    IF S = {} THEN 0
    ELSE LET x == CHOOSE y \in S : TRUE
         IN  Len(locLog[x[1]][x[2]]) + CountLocs(S \ {x})

\* queries metering their memory: Add calls on the trackers, in any interleaving
NextMem ==
    \E m \in Trackers, add \in AddInputs :
        /\ Len(added[m]) < MaxAdds
        /\ Add(m, add)

\* one pooled match is populated by a searcher and recycled; Reset is called
\* on it and on a match that was never populated
NextMatch ==
    \/ SetIndex(1, "idx")
    \/ SetID(1, "doc1")
    \/ \E newcap \in (len(dms[1].IndexInternalID) + 1)..MaxCap :
            AppendInternalID(1, 7, newcap)
    \/ SetScore(1, F(1))
    \/ SetExpl(1, SomeExpl)
    \/ SetLocations(1, "t", 1)
    \/ SetFragments(1, "body", <<"frag">>)
    \/ \E newcap \in (len(dms[1].Sort) + 1)..MaxCap :
            AppendSort(1, "k1", newcap)
    \/ /\ Len(fieldLog[1]["t"]) < MaxVals
       /\ AddFieldValue(1, "t", Scalar(1))
    \/ \E d \in DocumentInputs : SetDocument(1, d)
    \/ SetHitNumber(1, 1)
    \/ \E p \in {1, 2} : Reset(p)

\* stored field values are loaded into a match, which is recycled now and then
NextFields ==
    \/ \E name \in FieldNames, value \in FieldValueInputs :
            /\ Len(fieldLog[1][name]) < MaxVals
            /\ AddFieldValue(1, name, value)
    \/ Reset(1)

\* term locations are collected into two maps, the first of which a match
\* holds under one or both field names, and the match is put into a collection
NextLoc ==
    \/ \E t \in TLMIds, term \in Terms, location \in LocationInputs :
            /\ CountLocs(TLMIds \X Terms) < MaxLocs
            /\ AddLocation(t, term, location)
    \/ \E field \in FieldNames : SetLocations(1, field, 1)
    \/ \E entry \in {NilPtr, 1} :
            /\ Len(coll) < MaxColl
            /\ CollAppend(entry)

\* scored matches are collected and the collection is sorted by Swap steps
NextColl ==
    \/ \E p \in DMIds, s \in ScoreInputs : SetScore(p, s)
    \/ \E entry \in DMIds \cup {NilPtr} :
            /\ Len(coll) < MaxColl
            /\ CollAppend(entry)
    \/ \E i \in 1..Len(coll), j \in 1..Len(coll) : Swap(i, j)

Next == NextMem \/ NextMatch \/ NextFields \/ NextLoc \/ NextColl

Spec == Init /\ [][Next]_vars
SpecMem == Init /\ [][NextMem]_vars
SpecMatch == Init /\ [][NextMatch]_vars
SpecFields == Init /\ [][NextFields]_vars
SpecLoc == Init /\ [][NextLoc]_vars
SpecColl == Init /\ [][NextColl]_vars

---------------------------------------------------------------------------
(* Properties of MemTracker, under SpecMem *)

\* C1: Usage() of a tracker made by NewMemTracker is the sum of the arguments
\* of the Add calls made on it (in the accumulator's unsigned arithmetic),
\* whatever their order and however they interleave with the Add calls made
\* on the other tracker: the total of each tracker depends on its own calls only.
C1_UsageIsSumOfAdds ==
    \A m \in Trackers : Usage(m) = SumSeq(added[m]) % Modulus

C1_ThreeAddsInterleaved ==
    \E m \in Trackers, o \in Trackers :
        /\ m # o
        /\ Len(added[m]) = 3
        /\ added[m][1] # added[m][2]
        /\ SumSeq(added[m]) > 0
        /\ Usage(m) = SumSeq(added[m])
        /\ Len(added[o]) >= 1
        /\ Usage(o) # Usage(m)

\* the argument of the Add call a step makes on tracker m
LastAdded(m) == added'[m][Len(added'[m])]

\* C2 as stated: no Add call makes the reported total of a tracker go down.
C2_UsageNeverDecreases ==
    [][\A m \in Trackers : Usage(m)' >= Usage(m)]_vars

\* C2 as amended: Add(n) leaves Usage() = (Usage() before + n) mod 2^w; the
\* total grows by n when before + n < 2^w, and otherwise wraps around to
\* before + n - 2^w, which is below the total before. A tracker on which no
\* call is made keeps its total.
C2_UsageGrowsOrWraps ==
    [][\A m \in Trackers :
          IF added'[m] = added[m]
          THEN Usage(m)' = Usage(m)
          ELSE LET before == Usage(m)
                   n == LastAdded(m)
               IN  /\ before + n < Modulus =>
                        Usage(m)' = before + n /\ Usage(m)' >= before
                   /\ before + n >= Modulus =>
                        Usage(m)' = before + n - Modulus /\ Usage(m)' < before]_vars

C2_Wrapped ==
    \E m \in Trackers :
        /\ Len(added[m]) >= 2
        /\ SumSeq(added[m]) >= Modulus
        /\ Usage(m) < added[m][1]

---------------------------------------------------------------------------
(* Properties of DocumentMatch.Reset and SizeInBytes, under SpecMatch *)

\* C3: a Reset call returns the instance it was called on, with Index and ID
\* empty, Score zero, Expl, Locations, Fragments, Fields and Document absent,
\* HitNumber zero, and the IndexInternalID and Sort buffers at length 0 and at
\* the capacity they had before the call; no other instance changes.
C3_ResetRoundTrip ==
    [][lastOp' = "Reset" =>
          /\ ret' \in DMIds
          /\ LET old == dms[ret']
                 new == dms'[ret']
             IN  /\ new.Index = "" /\ new.ID = ""
                 /\ new.Score = F(0)
                 /\ new.Expl.isNil
                 /\ new.Locations.isNil /\ DOMAIN new.Locations.kv = {}
                 /\ new.Fragments.isNil /\ DOMAIN new.Fragments.kv = {}
                 /\ new.Fields.isNil /\ DOMAIN new.Fields.kv = {}
                 /\ new.Document.isNil
                 /\ new.HitNumber = 0
                 /\ len(new.IndexInternalID) = 0
                 /\ cap(new.IndexInternalID) = cap(old.IndexInternalID)
                 /\ len(new.Sort) = 0
                 /\ cap(new.Sort) = cap(old.Sort)
          /\ \A q \in DMIds \ {ret'} : dms'[q] = dms[q]]_vars

C3_ResetKeptGrownBuffers ==
    /\ lastOp = "Reset"
    /\ ret = 1
    /\ len(dms[1].IndexInternalID) = 0 /\ cap(dms[1].IndexInternalID) >= 2
    /\ len(dms[1].Sort) = 0 /\ cap(dms[1].Sort) >= 2

\* C9: every key of HeapOverhead that SizeInBytes reads is a key that init
\* populated, and for a match with a Document each composite field of the
\* document adds the registered overhead of a CompositeField to the size.
C9_OverheadKeysPopulated ==
    \A p \in DMIds :
        LET dm == dms[p]
            d == dm.Document
        IN  /\ OverheadKeysRead(dm) \subseteq DOMAIN HeapOverhead
            /\ ~d.isNil =>
                 DocumentMatchSizeInBytes(dm) =
                     DocumentMatchSizeInBytes([dm EXCEPT !.Document = NilDoc])
                     + HeapOverhead["Document"] + d.PlainTextBytes + Len(d.ID)
                     + d.NumFields * SizeOfInterface
                     + d.NumComposite * HeapOverhead["CompositeField"]

\* C10: after Reset the size of a match is the fixed overhead of a
\* DocumentMatch, the size of a freshly allocated one, whatever it held
\* before and whatever capacity its buffers keep.
C10_ResetSizeIsOverhead ==
    lastOp = "Reset" =>
        /\ DocumentMatchSizeInBytes(dms[ret]) = HeapOverhead["DocumentMatch"]
        /\ DocumentMatchSizeInBytes(dms[ret]) =
               DocumentMatchSizeInBytes(ZeroDocumentMatch)

C10_ResetWithCapacityLeft ==
    /\ lastOp = "Reset"
    /\ ret = 1
    /\ cap(dms[1].IndexInternalID) >= 1
    /\ cap(dms[1].Sort) >= 1
    /\ DocumentMatchSizeInBytes(dms[1]) = SizeofDocumentMatch + SizeOfPointer

---------------------------------------------------------------------------
(* Properties of DocumentMatch.AddFieldValue, under SpecFields *)

AllScalars(h) == \A i \in 1..Len(h) : h[i].kind = "scalar"

\* what Fields holds under name: no, or one, value
FieldEntry(dm, name) ==
    IF name \in DOMAIN dm.Fields.kv THEN {dm.Fields.kv[name]} ELSE {}

PromotionRule ==
    \A p \in DMIds, name \in FieldNames :
        LET h == fieldLog[p][name]
        IN  AllScalars(h) =>
              /\ Len(h) = 0 => FieldEntry(dms[p], name) = {}
              /\ Len(h) = 1 => FieldEntry(dms[p], name) = {h[1]}
              /\ Len(h) >= 2 => FieldEntry(dms[p], name) = {SliceOf(h)}

\* C4: from a match where name is absent (its Fields map nil, or made),
\* AddFieldValue(name, v1) ... AddFieldValue(name, vn) with scalar values
\* leave Fields[name] the scalar v1 when n = 1 and the sequence [v1, ..., vn]
\* when n >= 2, and a call leaves the value of every other name as it was.
C4_AddFieldValuePromotes ==
    [][/\ PromotionRule'
       /\ lastOp' = "AddFieldValue" =>
             \A p \in DMIds, name \in FieldNames :
                 fieldLog'[p][name] = fieldLog[p][name] =>
                     FieldEntry(dms'[p], name) = FieldEntry(dms[p], name)]_vars

C4_ScalarThenSequence ==
    \E name \in FieldNames, other \in FieldNames :
        /\ name # other
        /\ fieldLog[1][name] = <<Scalar(1), Scalar(2), Scalar(1)>>
        /\ dms[1].Fields.kv[name] = SliceOf(<<Scalar(1), Scalar(2), Scalar(1)>>)
        /\ fieldLog[1][other] = <<Scalar(2)>>
        /\ dms[1].Fields.kv[other] = Scalar(2)

---------------------------------------------------------------------------
(* Properties of TermLocationMap and the size estimators, under SpecLoc *)

\* the sum of the values of a function with a finite domain
RECURSIVE FnSum(_)
FnSum(f) ==
    IF DOMAIN f = {} THEN 0
    ELSE LET x == CHOOSE y \in DOMAIN f : TRUE
         IN  f[x] + FnSum([z \in (DOMAIN f) \ {x} |-> f[z]])

Holds(p, t) ==
    \E f \in DOMAIN dms[p].Locations.kv : dms[p].Locations.kv[f] = t

\* C5: an AddLocation call on a TermLocationMap, for a term it has or a new
\* one, strictly increases the SizeInBytes of the map, of every DocumentMatch
\* that holds the map in its Locations, and of a collection containing such
\* a match.
C5_AddLocationGrowsSize ==
    [][lastOp' = "AddLocation" =>
          /\ \E t \in TLMIds : tlms'[t] # tlms[t]
          /\ \A t \in TLMIds :
                tlms'[t] # tlms[t] =>
                  /\ TermLocationMapSizeInBytes(tlms'[t])
                        > TermLocationMapSizeInBytes(tlms[t])
                  /\ \A p \in DMIds :
                        Holds(p, t) =>
                          /\ DocumentMatchSizeInBytes(dms[p])'
                                > DocumentMatchSizeInBytes(dms[p])
                          /\ (\E i \in 1..Len(coll) : coll[i] = p) =>
                                CollectionSizeInBytes(coll)'
                                    > CollectionSizeInBytes(coll)]_vars

C5_GrewHeldMap ==
    /\ lastOp = "AddLocation"
    /\ \E t \in TLMIds, term \in Terms :
          /\ Holds(1, t)
          /\ term \in DOMAIN tlms[t]
          /\ Len(tlms[t][term]) >= 2
    /\ \E i \in 1..Len(coll) : coll[i] = 1

\* C6: the size of a collection is its fixed overhead plus the sizes of its
\* non-nil entries, an instance listed twice counted twice; the size of a
\* TermLocationMap is its fixed overhead plus, per term, the term's length,
\* the string and slice overheads and the sizes of the term's locations; the
\* size of a Location is its fixed overhead plus the per-uint64 overhead
\* times the number of its array positions.
C6_SizesCompose ==
    /\ CollectionSizeInBytes(coll) =
          HeapOverhead["DocumentMatchCollection"]
          + FnSum([i \in {k \in 1..Len(coll) : coll[k] # NilPtr} |->
                      DocumentMatchSizeInBytes(dms[coll[i]])])
    /\ \A t \in TLMIds :
          /\ TermLocationMapSizeInBytes(tlms[t]) =
                HeapOverhead["TermLocationMap"]
                + FnSum([k \in DOMAIN tlms[t] |->
                            Len(k) + SizeOfString + SizeOfSlice
                            + FnSum([i \in 1..Len(tlms[t][k]) |->
                                        LocationSizeInBytes(tlms[t][k][i])])])
          /\ \A k \in DOMAIN tlms[t] :
                \A i \in 1..Len(tlms[t][k]) :
                    LocationSizeInBytes(tlms[t][k][i]) =
                        HeapOverhead["Location"]
                        + Len(tlms[t][k][i].ArrayPositions) * SizeOfUint64

C6_NilAndRepeatedEntries ==
    /\ Len(coll) = 3
    /\ coll[1] = 1 /\ coll[2] = NilPtr /\ coll[3] = 1
    /\ \E t \in TLMIds :
          /\ Holds(1, t)
          /\ DOMAIN tlms[t] = Terms
          /\ \E k \in Terms : LocB \in {tlms[t][k][i] : i \in 1..Len(tlms[t][k])}

\* C7: the sequence a TermLocationMap stores for a term is exactly the
\* locations added for that term, in call order and with repetitions kept; a
\* term for which none was added is absent, so a call for one term leaves the
\* sequences of the other terms and of the other maps as they were.
C7_LocationsInCallOrder ==
    \A t \in TLMIds, term \in Terms :
        IF locLog[t][term] = <<>>
        THEN term \notin DOMAIN tlms[t]
        ELSE term \in DOMAIN tlms[t] /\ tlms[t][term] = locLog[t][term]

C7_RepeatedLocationKept ==
    \E t \in TLMIds, term \in Terms, other \in Terms :
        /\ term # other
        /\ term \in DOMAIN tlms[t] /\ other \in DOMAIN tlms[t]
        /\ tlms[t][term] = <<LocB, LocB>>
        /\ tlms[t][other] = <<LocA>>

---------------------------------------------------------------------------
(* Properties of DocumentMatchCollection as a sort.Interface, under SpecColl *)

ScoreAt(i) == dms[coll[i]].Score

\* the number of times entry e is listed in c
Occurrences(c, e) == Cardinality({i \in 1..Len(c) : c[i] = e})

\* Less(i, j) is: score i is strictly greater than score j; so Less is
\* irreflexive and asymmetric and is false both ways between equal scores
LessIsHigherScoreFirst ==
    \A i \in 1..Len(coll), j \in 1..Len(coll) :
        (coll[i] # NilPtr /\ coll[j] # NilPtr) =>
            LET a == ScoreAt(i)
                b == ScoreAt(j)
            IN  /\ Less(coll, i, j) \in {"true", "false"}
                /\ (Less(coll, i, j) = "true") <=> (~a.nan /\ ~b.nan /\ a.v > b.v)
                /\ Less(coll, i, i) = "false"
                /\ ~(Less(coll, i, j) = "true" /\ Less(coll, j, i) = "true")
                /\ a = b => Less(coll, i, j) = "false" /\ Less(coll, j, i) = "false"

\* a Swap step exchanges two entries and leaves the others, the length and
\* the multiset of entries as they were
SwapExchanges ==
    lastOp' = "Swap" =>
        /\ \E i \in 1..Len(coll), j \in 1..Len(coll) :
              /\ coll'[i] = coll[j]
              /\ coll'[j] = coll[i]
              /\ \A k \in (1..Len(coll)) \ {i, j} : coll'[k] = coll[k]
        /\ CollLen(coll') = CollLen(coll)
        /\ \A e \in DMIds \cup {NilPtr} : Occurrences(coll', e) = Occurrences(coll, e)

\* no adjacent pair k, k+1 has Less(k+1, k)
NoAdjacentPairOutOfOrder ==
    \A k \in 1..(Len(coll) - 1) : Less(coll, k + 1, k) = "false"

\* no entry is followed, anywhere later, by one of a higher score
NonIncreasingScores ==
    \A i \in 1..Len(coll), j \in 1..Len(coll) :
        (i < j /\ coll[i] # NilPtr /\ coll[j] # NilPtr) =>
            ~(~ScoreAt(i).nan /\ ~ScoreAt(j).nan /\ ScoreAt(i).v < ScoreAt(j).v)

NoNaNScore ==
    \A i \in 1..Len(coll) : coll[i] # NilPtr => ~ScoreAt(i).nan

\* C8 as stated: Less is "higher score first", Swap exchanges two entries and
\* keeps the rest, and a collection that Swaps leave with no adjacent pair
\* k, k+1 having Less(k+1, k) is in non-increasing score order.
C8_AdjacentOrderIsSorted ==
    [][/\ LessIsHigherScoreFirst'
       /\ SwapExchanges
       /\ (lastOp' = "Swap" /\ NoAdjacentPairOutOfOrder') => NonIncreasingScores']_vars

\* C8 as amended: the same, the last part for collections none of whose
\* scores is NaN (Less is false both ways against a NaN score, so adjacent
\* pairs in order do not make the whole collection ordered).
C8_AdjacentOrderIsSortedWithoutNaN ==
    [][/\ LessIsHigherScoreFirst'
       /\ SwapExchanges
       /\ (lastOp' = "Swap" /\ NoAdjacentPairOutOfOrder' /\ NoNaNScore') =>
             NonIncreasingScores']_vars

C8_SortedBySwaps ==
    /\ lastOp = "Swap"
    /\ Len(coll) = 3
    /\ \A i \in 1..3 : coll[i] # NilPtr
    /\ Cardinality({coll[i] : i \in 1..3}) = 3
    /\ ~ScoreAt(1).nan /\ ~ScoreAt(2).nan /\ ~ScoreAt(3).nan
    /\ ScoreAt(1).v > ScoreAt(2).v /\ ScoreAt(2).v = ScoreAt(3).v + 1
    /\ NoAdjacentPairOutOfOrder

=============================================================================
